---- MODULE Spec2Model ----
(***************************************************************************)
(* The streaming buffer and batch-flush engine of the weather consumer     *)
(* service (src/services/consumer/main.py).                                *)
(*                                                                         *)
(* Everything runs on one asyncio event loop: consume(), the periodic      *)
(* flush task, the POST /flush handler and the lifespan shutdown code are  *)
(* coroutines of that loop, so a coroutine is interleaved with the others  *)
(* only where it awaits something that suspends.  persist_batch() is an    *)
(* async def that contains no await (psycopg2 blocks the loop), which is   *)
(* modelled by persist_batch_suspends.  A flush is modelled in two steps,  *)
(* the drain under buffer_lock and the store transaction, so that the      *)
(* serialisation of flushes is something the check decides.                *)
(*                                                                         *)
(* Time is discrete and kept relative to the present instant: time.time()  *)
(* is 0, a stored instant t <= 0 lies -t ticks in the past, and a tick     *)
(* moves every stored instant one further into the past (saturating at     *)
(* Horizon, beyond every comparison made).  One tick is the period of the  *)
(* periodic task, a quarter of the flush interval.  A handler takes no     *)
(* time and asyncio.sleep(d) wakes exactly d after it was called.  Floats  *)
(* are modelled by integers.                                               *)
(***************************************************************************)
EXTENDS Integers, Sequences, FiniteSets, TLC

\* ------------------------------------------------------------------ bounds
\* Number of messages the source delivers in one run.
MaxMsgs == 3
\* BATCH_SIZE is read from the environment (100 when unset); a small threshold.
BATCH_SIZE == 2

\* ------------------------------------------------------- program constants
\* BATCH_INTERVAL, in ticks of a quarter of the interval.
\* Number of POST /weather-data/batch requests the collector is sent.
MaxBatches == 3

\* Number of GET /weather/{station_id} requests the query service is sent.
MaxQueries == 3

\* Number of POST /start and POST /stop requests the generator is sent.
MaxRequests == 4

\* Number of handler runs followed statement by statement for buffer_lock.
MaxRuns == 3

BATCH_INTERVAL == 4
\* asyncio.sleep(BATCH_INTERVAL / 4)
WakePeriod == BATCH_INTERVAL \div 4
\* Stored instants older than this are not told apart.
Horizon == BATCH_INTERVAL + WakePeriod + 1

\* ------------------------------------------------------------------ inputs
\* Station ids and timestamps are arbitrary strings (WeatherData declares
\* both as str and validates neither); the natural keys of the inputs.  The
\* last one is a station whose id contains the separator of unique_key.
NaturalKeys ==
    {<<"st1", "12:00">>, <<"st1", "12:05">>, <<"st2", "12:00">>, <<"st1:12", "00">>}
FieldNames == {"station_id", "temperature", "humidity", "wind_speed", "timestamp"}

Payload(s, t, temp, hum, wind, miss, ok) ==
    [parses |-> ok, missing |-> miss, station_id |-> s, timestamp |-> t,
     temperature |-> temp, humidity |-> hum, wind_speed |-> wind]

\* Two readings, both on the limits of the validators.
Reading1 == [temperature |-> -100, humidity |-> 0, wind_speed |-> 0]
Reading2 == [temperature |-> 60, humidity |-> 100, wind_speed |-> 5]
\* Every natural key has the first reading, and one key has the second too.
KeyMsgs ==
    {Payload(nk[1], nk[2], Reading1.temperature, Reading1.humidity,
             Reading1.wind_speed, {}, TRUE) : nk \in NaturalKeys}
    \cup {Payload("st1", "12:00", Reading2.temperature, Reading2.humidity,
                  Reading2.wind_speed, {}, TRUE)}
\* Readings just outside the limits of one validator.
EdgeMsgs ==
    {Payload("st1", "12:00", temp, 50, 5, {}, TRUE) : temp \in {-101, 61, 999}}
    \cup {Payload("st1", "12:00", 10, hum, 5, {}, TRUE) : hum \in {-1, 101}}
    \cup {Payload("st1", "12:00", 10, 50, wind, {}, TRUE) : wind \in {-1}}
\* JSON objects with one required field absent (value.get gives None).
MissingMsgs ==
    {Payload("st1", "12:00", 10, 50, 5, {f}, TRUE) : f \in FieldNames}
\* A payload json.loads rejects.
GarbageMsgs == {Payload("st1", "12:00", 10, 50, 5, {}, FALSE)}

Messages == KeyMsgs \cup EdgeMsgs \cup MissingMsgs \cup GarbageMsgs

\* A well-formed message: it parses, has every field and is within the
\* limits of the data model.  Used only to count what the claims speak of.
RecordConstraints(m) ==
    /\ m.parses
    /\ m.missing = {}
    /\ m.temperature >= -100 /\ m.temperature <= 60
    /\ m.humidity >= 0 /\ m.humidity <= 100
    /\ m.wind_speed >= 0

\* ------------------------------------------------------------------- state
VARIABLES
    buffer,            \* buffer: unique_key -> stored dict (plus the offset of its message)
    stats,             \* stats: the three counters
    last_flush_time,   \* last_flush_time
    shutdown_event,    \* shutdown_event.is_set()
    db,                \* the weather table: the set of its rows
    in_flight,         \* persist_batch calls that drained and have not yet returned
    consume_pc,        \* position of consume(): "next_msg", "size_flush", "final_flush", "stopped"
    trace_id,          \* consume()'s local trace_id: "unbound" until line 313 first runs
    timer_pc,          \* position of periodic_flush_task(): "sleep", "flush", "cancelled", "done"
    wake_at,           \* instant at which the task's sleep ends
    current_time,      \* periodic_flush_task()'s local current_time, while it flushes
    http_pc,           \* position of one POST /flush request: "idle", "flush", "respond"
    http_response,     \* "flushed" in the response being returned, "none" otherwise
    lifespan_pc,       \* position of lifespan(): "running", "flush", "closed" ("aborted": left by an exception)
    consumed,          \* number of messages pulled from the source (the next offset)
    dlq,               \* number of messages handed to send_to_dlq
    overwritten,       \* offsets of the messages whose Buffer entry a later upsert replaced
    drained,           \* offset -> number of drained snapshots holding that message's entry
    db_connects,       \* number of psycopg2.connect calls made by persist_batch
    last_persist,      \* caller and return value of the persist_batch call that returned last
    flushed,           \* the records of the batches committed so far
    latest,            \* natural key -> fields of the last well-formed message processed since the last drain
    repeats,           \* number of well-formed messages processed whose natural key was in latest
    wellformed,        \* number of well-formed messages processed
    nonempty_since,    \* instant at which the buffer was last empty before an upsert
    dlq_topic,         \* the payloads produced to the dead-letter topic (followed in RouterSpec only)
    dlq_dropped,       \* the payloads whose dead-letter delivery failed (followed in RouterSpec only)
    committed_offset,  \* the offset the consumer group has committed at the source (followed in SourceSpec only)
    unbuffered,        \* offsets of accepted-format messages that were pulled and not upserted (followed in SourceSpec only)
    stats_response,    \* the body of the GET /stats response being returned: a set of at most one body (followed in StatsSpec only)
    collector_producer,\* collector: whether the module-level Producer was created (followed in CollectorSpec only)
    batch_request,     \* collector: the bodies of the batch requests handled, in order
    batch_status,      \* collector: the HTTP status of the last batch response, 0 before any
    batch_summary,     \* collector: the summary body of the last batch response, a set of at most one body (none unless the status is 200)
    produced,          \* collector: number of messages produced to the data topic and to the DLQ topic
    query_cache,       \* query: Redis, for each cache key the set of at most one JSON text stored under it (followed in QuerySpec only)
    weather_table,     \* query: for each station the contents of its rows in the weather table, "old" as first stored or "new" once the consumer wrote to them again
    db_cursors,        \* query: number of database cursors opened so far
    queries,           \* query: number of GET /weather/{station_id} requests handled
    query_response,    \* query: the last response with what led to it, a set of at most one record
    is_generating,     \* generator: the module-level flag (followed in GeneratorSpec only)
    generation_tasks,  \* generator: for each generate_data_task created, in order of creation, where it is
    stop_seen,         \* generator: the tasks that were not ended when a POST /stop was handled
    revived,           \* generator: the tasks that went on at a loop check after such a POST /stop
    generator_requests,\* generator: number of POST /start and POST /stop handled
    buffer_lock,       \* "free", or the coroutine that holds the lock (followed in LockSpec only)
    lock_task,         \* the coroutine the event loop is running between two suspension points, "none" when the loop is idle
    lock_pc,           \* the statement that coroutine is at
    handler_runs,      \* number of runs started
    newest,            \* for each natural key the fields of the most recently consumed message the code accepted (followed in DurableSpec only)
    since_flush        \* ticks since a size- or time-triggered flush last returned, up to BATCH_INTERVAL (followed in TimingSpec only)

vars == <<buffer, stats, last_flush_time, shutdown_event, db, in_flight,
          consume_pc, trace_id, timer_pc, wake_at, current_time, http_pc, http_response,
          lifespan_pc, consumed, dlq, overwritten, drained,
          db_connects, last_persist, flushed, latest, repeats, wellformed,
          nonempty_since, dlq_topic, dlq_dropped, committed_offset,
          unbuffered, stats_response, collector_producer, batch_request,
          batch_status, batch_summary, produced, query_cache, weather_table,
          db_cursors, queries, query_response, is_generating,
          generation_tasks, stop_seen, revived, generator_requests,
          buffer_lock, lock_task,
          lock_pc, handler_runs, newest, since_flush>>

consume_vars == <<consume_pc, trace_id, consumed, dlq, overwritten, repeats, wellformed>>
timer_vars == <<timer_pc, wake_at, current_time>>
store_vars == <<db, db_connects, last_persist, flushed>>
router_vars == <<dlq_topic, dlq_dropped>>
source_vars == <<committed_offset, unbuffered>>
collector_vars == <<collector_producer, batch_request, batch_status,
                    batch_summary, produced>>
query_vars == <<query_cache, weather_table, db_cursors, queries, query_response>>
\* The variables of the services other than the consumer.
generator_vars == <<is_generating, generation_tasks, stop_seen, revived,
                    generator_requests>>
peer_vars == <<collector_vars, query_vars, generator_vars>>
lock_vars == <<buffer_lock, lock_task, lock_pc, handler_runs>>
unseen_vars == <<router_vars, source_vars, stats_response, peer_vars, lock_vars, newest, since_flush>>
\* The consumer's data and the positions of its coroutines.
consumer_data_vars ==
    <<buffer, stats, last_flush_time, shutdown_event, in_flight, store_vars,
      consume_vars, timer_vars, http_pc, http_response, lifespan_pc, drained,
      latest, nonempty_since, router_vars, source_vars, stats_response,
      newest, since_flush>>
\* Everything the consumer owns, left alone by the other services.
consumer_service_vars == <<consumer_data_vars, lock_vars>>

\* --------------------------------------------------------------------- time
\* time.time()
time_time == 0

\* A stored instant, one tick later.
Aged(t) == IF t - 1 < -Horizon THEN -Horizon ELSE t - 1

\* --------------------------------------------------------------- validation
\* The temperature validator without its lower limit.
validate_temperature_no_lower_limit(v) == v <= 60

validate_temperature(v) == -100 <= v /\ v <= 60

validate_humidity(v) == 0 <= v /\ v <= 100

validate_wind_speed(v) == ~(v < 0)

\* json.loads(msg.value.decode('utf-8'))
json_loads_ok(m) == m.parses

\* WeatherData(...) raises unless every required field is present and every
\* validator accepts its value.
WeatherData_ok(m) ==
    /\ m.missing = {}
    /\ validate_temperature(m.temperature)
    /\ validate_humidity(m.humidity)
    /\ validate_wind_speed(m.wind_speed)

Accepted(m) == json_loads_ok(m) /\ WeatherData_ok(m)

\* ------------------------------------------------------------------- buffer
\* unique_key = f"{data.station_id}:{data.timestamp}"
unique_key(m) == m.station_id \o ":" \o m.timestamp

natural_key(e) == <<e.station_id, e.timestamp>>

\* The dict stored at line 338; offset is the offset of its message, carried
\* along to follow the entry through the flushes.
stored_dict(m, off) ==
    [station_id |-> m.station_id, temperature |-> m.temperature,
     humidity |-> m.humidity, wind_speed |-> m.wind_speed,
     timestamp |-> m.timestamp, offset |-> off]

Fields(e) ==
    [station_id |-> e.station_id, temperature |-> e.temperature,
     humidity |-> e.humidity, wind_speed |-> e.wind_speed,
     timestamp |-> e.timestamp]

\* No key ever taken for a duplicate.
is_duplicate_never(key, buf) == FALSE

\* is_duplicate = unique_key in buffer
is_duplicate(key, buf) == key \in DOMAIN buf

\* buffer.setdefault(unique_key, {...}): the first record of a key is kept.
setitem_keeps_first(buf, key, e) ==
    [k \in DOMAIN buf \cup {key} |-> IF k \in DOMAIN buf THEN buf[k] ELSE e]

\* buffer[unique_key] = {...}
setitem(buf, key, e) ==
    [k \in DOMAIN buf \cup {key} |-> IF k = key THEN e ELSE buf[k]]

len(buf) == Cardinality(DOMAIN buf)

\* The flush put off until the threshold is exceeded.
size_flush_due_above(buf) == len(buf) > BATCH_SIZE

\* len(buffer) >= BATCH_SIZE
size_flush_due(buf) == len(buf) >= BATCH_SIZE

\* A copy that misses one of the values.
values_but_one(buf) ==
    IF DOMAIN buf = {} THEN {}
    ELSE {buf[k] : k \in DOMAIN buf \ {CHOOSE k \in DOMAIN buf : TRUE}}

\* data_to_persist = list(buffer.values())
values(buf) == {buf[k] : k \in DOMAIN buf}

\* The buffer is copied and not cleared.
clear_nothing(buf) == buf

\* buffer.clear()
clear(buf) == [k \in {} |-> buf[k]]

\* `if not buffer: return 0` at the top of persist_batch (line 203)
persist_nothing(buf) == len(buf) = 0

\* The elapsed time is not compared with the interval.
time_flush_due_always(t, last) == TRUE

\* The interval is taken twice as long as configured.
time_flush_due_late(t, last) == t - last >= 2 * BATCH_INTERVAL

\* time_since_last_flush >= BATCH_INTERVAL
time_flush_due(t, last) == t - last >= BATCH_INTERVAL

loop_continues_always(ev) == TRUE

\* Line 468: `while not shutdown_event.is_set()`, read after each pass.
loop_continues(ev) == ~ev

\* The store calls awaited (an asynchronous driver): the loop runs other
\* coroutines between the drain and the return.
persist_batch_awaits_store == TRUE

\* persist_batch has no suspension point between the drain and its return.
persist_batch_suspends == FALSE

\* No coroutine is in the middle of a handler, so the loop can run another.
LoopFree == (persist_batch_suspends \/ in_flight = {}) /\ http_pc # "respond"

\* -------------------------------------------------------------------- store
\* INSERT INTO weather (...) VALUES (...): the row of a record.
inserted_row(e) ==
    [station_id |-> e.station_id, temperature |-> e.temperature,
     humidity |-> e.humidity, wind_speed |-> e.wind_speed,
     timestamp |-> e.timestamp]

\* ON CONFLICT (station_id, timestamp): the insert of e conflicts with row r.
conflicts(r, e) == r.station_id = e.station_id /\ r.timestamp = e.timestamp

\* DO UPDATE SET temperature = EXCLUDED.temperature, humidity = ...,
\* wind_speed = ...
do_update(r, e) ==
    [r EXCEPT !.temperature = e.temperature, !.humidity = e.humidity,
              !.wind_speed = e.wind_speed]

\* The statement without its ON CONFLICT clause, on a table without the
\* unique constraint: every record becomes a new row.
execute_plain_insert(table, e) == table \cup {inserted_row(e)}

\* One cursor.execute of the statement (lines 229-245).
execute(table, e) ==
    IF \E r \in table : conflicts(r, e)
    THEN {IF conflicts(r, e) THEN do_update(r, e) ELSE r : r \in table}
    ELSE table \cup {inserted_row(e)}

\* The loop over data_to_persist (lines 228-246), then commit.
RECURSIVE execute_all(_, _)
execute_all(table, batch) ==
    IF batch = {} THEN table
    ELSE LET e == CHOOSE x \in batch : TRUE
         IN  execute_all(execute(table, e), batch \ {e})

\* The first statement of a failed flush stays written.
rolled_back_but_one(table, batch) ==
    IF batch = {} THEN table ELSE execute(table, CHOOSE x \in batch : TRUE)

\* The transaction of a flush that raised is never committed: the table is
\* as it was before the first statement.
rolled_back(table, batch) == table

Outcomes == {"committed", "connect_failed", "execute_failed", "commit_failed"}

counts_batch_always(outcome) == TRUE

\* Lines 248-253: stats["batches_persisted"] += 1 stands after conn.commit()
\* inside the try, so it runs only when connect, writes and commit succeeded.
counts_batch(outcome) == outcome = "committed"

consume_loop_restarts_always == TRUE

\* consume_loop (lines 386-392) awaits consume() once: when consume() has
\* returned it logs and ends, it has no loop and no retry.
consume_loop_restarts == FALSE

persist_batch_raises_uncaught(outcome) == outcome # "committed"

\* Lines 273-275: `except Exception` around the whole transaction catches
\* every failure, so no exception leaves persist_batch.
persist_batch_raises(outcome) == FALSE

\* "flushed" in the response of flush_buffer after persist_batch returned
\* records_processed (line 459).
flushed_count(buffer_size, records_processed) == buffer_size

\* The count of the drained records returned whatever the store did.
return_value_counts_drained(data_to_persist, outcome) == Cardinality(data_to_persist)

\* What persist_batch returns: 0 before the drain when the buffer is empty
\* (line 205), records_processed after the commit (line 272), 0 from the
\* except clause (line 275).
return_value(data_to_persist, outcome) ==
    IF data_to_persist = {} THEN 0
    ELSE IF outcome = "committed" THEN Cardinality(data_to_persist)
    ELSE 0

\* -------------------------------------------------------------------- Init
\* The collector before its first request; created tells whether
\* Producer(producer_conf) succeeded at import (collector lines 59-64).
CollectorStarted(created) ==
    /\ collector_producer = created
    /\ batch_request = <<>>
    /\ batch_status = 0
    /\ batch_summary = {}
    /\ produced = [topic |-> 0, dlq |-> 0]

ConsumerStarted ==
    /\ buffer = [k \in {} |-> 0]
    /\ stats = [messages_processed |-> 0, batches_persisted |-> 0,
                in_memory_duplicates |-> 0]
    /\ last_flush_time = time_time
    /\ shutdown_event = FALSE
    /\ db = {}
    /\ in_flight = {}
    /\ consume_pc = "next_msg"
    /\ trace_id = "unbound"
    /\ timer_pc = "sleep"
    /\ wake_at = time_time + WakePeriod
    /\ current_time = 0
    /\ http_pc = "idle"
    /\ http_response = "none"
    /\ lifespan_pc = "running"
    /\ consumed = 0
    /\ newest = [nk \in {} |-> 0]
    /\ buffer_lock = "free"
    /\ lock_task = "none"
    /\ lock_pc = "idle"
    /\ handler_runs = 0
    /\ dlq = 0
    /\ overwritten = {}
    /\ drained = [o \in {} |-> 0]
    /\ db_connects = 0
    /\ last_persist = [caller |-> "none", returned |-> 0]
    /\ flushed = {}
    /\ latest = [k \in {} |-> 0]
    /\ repeats = 0
    /\ wellformed = 0
    /\ nonempty_since = 0
    /\ dlq_topic = {}
    /\ dlq_dropped = {}
    /\ since_flush = BATCH_INTERVAL
    /\ committed_offset = 0
    /\ unbuffered = {}
    /\ stats_response = {}

\* ---------------------------------------------------------------- query
\* The stations asked for and the two shapes of the time range: start_time
\* and end_time both absent ("all") or both given ("ranged").
Stations == {"st1", "st2"}
Ranges == {"all", "ranged"}

\* Query line 184: f"weather:{station_id}:{start_time}:{end_time}".  The two
\* times are rendered as 'None' or as a date-and-time text, neither of which
\* is a proper suffix of the other after a colon, so the text determines the
\* three parts; the key is kept as the three parts.
weather_cache_key(station_id, range) == <<"weather", station_id, range>>
QueryKeys == {weather_cache_key(st, rg) : st \in Stations, rg \in Ranges}

\* The query service before its first request: Redis empty.
QueryStarted ==
    /\ query_cache = [k \in QueryKeys |-> {}]
    /\ weather_table = [st \in Stations |-> "old"]
    /\ db_cursors = 0
    /\ queries = 0
    /\ query_response = {}

\* The generator as its module is loaded (generator line 39): not
\* generating, no task created.
GeneratorStarted ==
    /\ is_generating = FALSE
    /\ generation_tasks = <<>>
    /\ stop_seen = {}
    /\ revived = {}
    /\ generator_requests = 0

Init ==
    ConsumerStarted /\ CollectorStarted(TRUE) /\ QueryStarted /\ GeneratorStarted

\* ------------------------------------------------------------ persist_batch
\* Lines 203-212: with a non-empty buffer, copy the values and clear the
\* buffer under buffer_lock.  buf is the buffer the caller sees.
Drain(buf, caller) ==
    LET data_to_persist == values(buf)
        offs == {e.offset : e \in data_to_persist}
    IN  /\ in_flight' = in_flight \cup
                {[caller |-> caller, data_to_persist |-> data_to_persist]}
        /\ buffer' = clear(buf)
        /\ drained' = [o \in DOMAIN drained \cup offs |->
                          (IF o \in DOMAIN drained THEN drained[o] ELSE 0)
                          + (IF o \in offs THEN 1 ELSE 0)]
        /\ latest' = [k \in {} |-> 0]
        /\ nonempty_since' = 0

\* The timestamp left as it was.
flush_time_after_stale(caller, committed) == last_flush_time

\* What the caller does with last_flush_time once persist_batch returned:
\* consume() sets it (line 353), periodic_flush_task() sets it to the time
\* it read at its wake (line 484), the others leave what line 270 set.
flush_time_after(caller, committed) ==
    CASE caller = "consume" -> time_time
      [] caller = "periodic_flush_task" -> current_time
      [] OTHER -> IF committed THEN time_time ELSE last_flush_time

\* Lines 214-275 and the caller's code after the call: the transaction, the
\* counters, the return value; any exception is caught and 0 is returned.
PersistReturn(call, outcome) ==
    LET committed == outcome = "committed"
        c == call.caller
    IN  /\ call \in in_flight
        /\ in_flight' = in_flight \ {call}
        /\ db_connects' = db_connects + 1
        /\ db' = IF committed THEN execute_all(db, call.data_to_persist)
                               ELSE rolled_back(db, call.data_to_persist)
        /\ stats' = IF counts_batch(outcome)
                    THEN [stats EXCEPT !.batches_persisted = @ + 1]
                    ELSE stats
        /\ last_persist' =
               [caller |-> c,
                returned |-> return_value(call.data_to_persist, outcome)]
        /\ flushed' = IF committed
                      THEN flushed \cup {Fields(e) : e \in call.data_to_persist}
                      ELSE flushed
        /\ last_flush_time' = flush_time_after(c, committed)
        /\ consume_pc' = CASE c = "consume" -> "next_msg"
                           [] c = "consume_finally" ->
                                  IF consume_loop_restarts THEN "next_msg" ELSE "stopped"
                           [] OTHER -> consume_pc
        /\ timer_pc' = IF c = "periodic_flush_task"
                       THEN (IF loop_continues(shutdown_event) THEN "sleep" ELSE "done")
                       ELSE timer_pc
        /\ wake_at' = IF c = "periodic_flush_task"
                      THEN (IF loop_continues(shutdown_event)
                            THEN time_time + WakePeriod ELSE 0)
                      ELSE wake_at
        /\ current_time' = IF c = "periodic_flush_task" THEN 0 ELSE current_time
        /\ http_pc' = IF c = "flush_buffer" THEN "respond" ELSE http_pc
        /\ http_response' =
               IF c = "flush_buffer"
               THEN flushed_count(Cardinality(call.data_to_persist),
                                  return_value(call.data_to_persist, outcome))
               ELSE http_response
        /\ lifespan_pc' = IF c = "lifespan"
                          THEN (IF persist_batch_raises(outcome)
                                THEN "aborted" ELSE "closed")
                          ELSE lifespan_pc
        /\ UNCHANGED <<buffer, shutdown_event, trace_id, consumed, dlq,
                       overwritten, drained, latest, repeats, wellformed,
                       nonempty_since, router_vars, source_vars, stats_response,
                       peer_vars, lock_vars, newest>>

\* The callers whose flush is triggered by size (line 352) or by time (line 481).
TriggeredCallers == {"consume", "periodic_flush_task"}

PersistEnd ==
    /\ \E call \in in_flight : \E outcome \in Outcomes : PersistReturn(call, outcome)
    /\ UNCHANGED since_flush

\* The same step with the time since the last triggered flush followed.
TimedPersistEnd ==
    \E call \in in_flight : \E outcome \in Outcomes :
        /\ PersistReturn(call, outcome)
        /\ since_flush' = IF call.caller \in TriggeredCallers THEN 0 ELSE since_flush

\* ------------------------------------------------------------------ consume
\* The finally clause of consume() (lines 369-376).
ConsumeFinally ==
    IF len(buffer) > 0 /\ ~persist_nothing(buffer)
    THEN /\ Drain(buffer, "consume_finally")
         /\ consume_pc' = "final_flush"
    ELSE /\ consume_pc' = IF consume_loop_restarts THEN "next_msg" ELSE "stopped"
         /\ UNCHANGED <<buffer, in_flight, drained, latest, nonempty_since>>

\* The handler of a rejected message calls send_to_dlq (line 358) unless
\* reading its own trace_id fails first: after a payload json.loads rejected,
\* trace_id is what an earlier message left, and unbound if none did.
Handed(m) ==
    /\ ~shutdown_event
    /\ ~Accepted(m)
    /\ json_loads_ok(m) \/ trace_id # "unbound"

\* Line 183: what send_to_dlq hands to produce() for the bytes consume()
\* passes it (a truthy trace_id skips lines 165-171, bytes skip 178-181).
dlq_message(msg) == msg

dlq_failure_propagates_uncaught(delivered) == ~delivered

\* Lines 186-187 and 359-360: send_to_dlq catches every Exception of the
\* producer, and consume() wraps the call in a bare except.
dlq_failure_propagates(delivered) == FALSE

\* send_to_dlq (lines 163-187) as seen at the dead-letter topic.
send_to_dlq(msg, delivered) ==
    /\ dlq_topic' = IF delivered THEN dlq_topic \cup {dlq_message(msg)} ELSE dlq_topic
    /\ dlq_dropped' = IF delivered THEN dlq_dropped ELSE dlq_dropped \cup {msg}

\* One iteration of `async for msg in consumer` (lines 301-363); delivered
\* tells whether the producer gets a rejected message to the topic.
ConsumeMessage(m, delivered) ==
    /\ consume_pc = "next_msg"
    /\ LoopFree
    /\ consumed < MaxMsgs
    /\ consumed' = consumed + 1
    /\ UNCHANGED <<last_flush_time, shutdown_event, store_vars, timer_vars,
                   http_pc, http_response, lifespan_pc>>
    /\ IF shutdown_event
       THEN \* lines 303-305: break, the message is not processed
            /\ ConsumeFinally
            /\ UNCHANGED <<stats, trace_id, dlq, overwritten, repeats, wellformed>>
       ELSE LET seen == IF RecordConstraints(m)
                        THEN [nk \in DOMAIN latest \cup {natural_key(m)} |->
                                 IF nk = natural_key(m) THEN Fields(m) ELSE latest[nk]]
                        ELSE latest
            IN
            /\ wellformed' = IF RecordConstraints(m) THEN wellformed + 1 ELSE wellformed
            /\ repeats' = IF RecordConstraints(m) /\ natural_key(m) \in DOMAIN latest
                          THEN repeats + 1 ELSE repeats
            /\ IF Accepted(m)
               THEN LET key == unique_key(m)
                        dup == is_duplicate(key, buffer)
                        upserted == setitem(buffer, key, stored_dict(m, consumed))
                    IN  /\ trace_id' = "bound"
                        /\ stats' = [stats EXCEPT
                               !.in_memory_duplicates = IF dup THEN @ + 1 ELSE @,
                               !.messages_processed = @ + 1]
                        /\ overwritten' = IF key \in DOMAIN buffer
                                          THEN overwritten \cup {buffer[key].offset}
                                          ELSE overwritten
                        /\ dlq' = dlq
                        /\ IF /\ size_flush_due(upserted) /\ len(upserted) > 0
                              /\ ~persist_nothing(upserted)
                           THEN /\ Drain(upserted, "consume")
                                /\ consume_pc' = "size_flush"
                           ELSE /\ buffer' = upserted
                                /\ latest' = seen
                                /\ nonempty_since' = IF len(buffer) = 0
                                                      THEN time_time ELSE nonempty_since
                                /\ UNCHANGED <<in_flight, drained, consume_pc>>
               ELSE \* lines 355-360: the except branch
                    /\ trace_id' = IF json_loads_ok(m) THEN "bound" ELSE trace_id
                    /\ dlq' = IF Handed(m) THEN dlq + 1 ELSE dlq
                    /\ UNCHANGED <<stats, overwritten>>
                    /\ IF Handed(m) /\ dlq_failure_propagates(delivered)
                       THEN \* lines 365-376: the error leaves the loop
                            ConsumeFinally
                       ELSE /\ latest' = seen
                            /\ UNCHANGED <<buffer, in_flight, drained, consume_pc,
                                           nonempty_since>>

\* The iteration with the dead-letter topic left out of sight.
Consume(m) ==
    /\ \E delivered \in BOOLEAN : ConsumeMessage(m, delivered)
    /\ UNCHANGED unseen_vars

\* The iteration with the dead-letter topic followed.
RoutedConsume(m) ==
    \E delivered \in BOOLEAN :
        /\ ConsumeMessage(m, delivered)
        /\ IF Handed(m) THEN send_to_dlq(m, delivered) ELSE UNCHANGED router_vars
        /\ UNCHANGED <<source_vars, stats_response, peer_vars, lock_vars, newest, since_flush>>

\* The iteration with the source's committed offset followed: a message of
\* accepted format that the loop pulls and leaves at its break (lines
\* 303-305) is noted.
SourcedConsume(m) ==
    /\ \E delivered \in BOOLEAN : ConsumeMessage(m, delivered)
    /\ unbuffered' = IF shutdown_event /\ Accepted(m)
                     THEN unbuffered \cup {consumed} ELSE unbuffered
    /\ UNCHANGED <<committed_offset, router_vars, stats_response, peer_vars, lock_vars, newest,
                   since_flush>>

\* enable_auto_commit=True (lines 284-291): the consumer commits its
\* position, the offset after the last message it returned to consume(),
\* from a background task of the event loop every auto_commit_interval_ms
\* and once more when it is stopped (line 376).
AutoCommit ==
    /\ LoopFree
    /\ committed_offset < consumed
    /\ committed_offset' = consumed
    /\ UNCHANGED <<buffer, stats, last_flush_time, shutdown_event, in_flight,
                   store_vars, consume_vars, timer_vars, http_pc, http_response,
                   lifespan_pc, drained, latest, nonempty_since, router_vars,
                   unbuffered, stats_response, peer_vars, lock_vars, newest, since_flush>>

\* The source iterator raises (lines 365-376): stop the consumer, final flush.
SourceError ==
    /\ consume_pc = "next_msg"
    /\ LoopFree
    /\ ConsumeFinally
    /\ UNCHANGED <<stats, last_flush_time, shutdown_event, store_vars, trace_id,
                   timer_vars, http_pc, http_response, lifespan_pc, consumed, dlq, overwritten,
                   repeats, wellformed, unseen_vars>>

\* ------------------------------------------------------ periodic_flush_task
\* The body of the loop after asyncio.sleep returned (lines 473-484), then
\* the loop condition (line 468).
TimerWake ==
    /\ timer_pc = "sleep"
    /\ wake_at = time_time
    /\ LoopFree
    /\ UNCHANGED <<stats, shutdown_event, store_vars, consume_vars, http_pc, http_response,
                   lifespan_pc, unseen_vars>>
    /\ IF /\ time_flush_due(time_time, last_flush_time) /\ len(buffer) > 0
          /\ ~persist_nothing(buffer)
       THEN /\ Drain(buffer, "periodic_flush_task")
            /\ timer_pc' = "flush"
            /\ current_time' = time_time
            /\ UNCHANGED <<wake_at, last_flush_time>>
       ELSE /\ last_flush_time' = IF time_flush_due(time_time, last_flush_time)
                                  THEN time_time ELSE last_flush_time
            /\ timer_pc' = IF loop_continues(shutdown_event) THEN "sleep" ELSE "done"
            /\ wake_at' = IF loop_continues(shutdown_event)
                          THEN time_time + WakePeriod ELSE 0
            /\ UNCHANGED <<buffer, in_flight, drained, latest, current_time,
                           nonempty_since>>

\* ------------------------------------------------------------- POST /flush
\* flush_buffer (lines 446-460): with an empty buffer it answers at once,
\* otherwise it calls persist_batch and answers when that returns.
ManualFlush ==
    /\ http_pc = "idle"
    /\ lifespan_pc = "running"
    /\ LoopFree
    /\ LET buffer_size == len(buffer)
       IN  IF buffer_size = 0
           THEN /\ http_response' = 0
                /\ http_pc' = "respond"
                /\ UNCHANGED <<buffer, in_flight, drained, latest, nonempty_since>>
           ELSE /\ ~persist_nothing(buffer)
                /\ Drain(buffer, "flush_buffer")
                /\ http_pc' = "flush"
                /\ UNCHANGED http_response
    /\ UNCHANGED <<stats, last_flush_time, shutdown_event, store_vars,
                   consume_vars, timer_vars, lifespan_pc, unseen_vars>>

\* The return statement of flush_buffer: the response leaves the handler.
ManualFlushReturn ==
    /\ http_pc = "respond"
    /\ http_pc' = "idle"
    /\ http_response' = "none"
    /\ UNCHANGED <<buffer, stats, last_flush_time, shutdown_event, in_flight,
                   store_vars, consume_vars, timer_vars, lifespan_pc, drained,
                   latest, nonempty_since, unseen_vars>>

\* --------------------------------------------------------------- GET /stats
get_stats_without_buffer ==
    [messages_processed |-> stats.messages_processed,
     batches_persisted |-> stats.batches_persisted,
     buffer_size |-> 0,
     in_memory_duplicates |-> stats.in_memory_duplicates]

\* get_stats (lines 434-443): the response body.
get_stats ==
    [messages_processed |-> stats["messages_processed"],
     batches_persisted |-> stats["batches_persisted"],
     buffer_size |-> len(buffer),
     in_memory_duplicates |-> stats["in_memory_duplicates"]]

\* A GET /stats request is handled: the handler has no await and no
\* assignment, it builds the body and returns.
GetStats ==
    /\ LoopFree
    /\ lifespan_pc = "running"
    /\ stats_response = {}
    /\ stats_response' = {get_stats}
    /\ UNCHANGED <<buffer, stats, last_flush_time, shutdown_event, in_flight,
                   store_vars, consume_vars, timer_vars, http_pc, http_response,
                   lifespan_pc, drained, latest, nonempty_since, router_vars,
                   source_vars, peer_vars, lock_vars, newest, since_flush>>

\* The response has left the server.
GetStatsReturn ==
    /\ stats_response # {}
    /\ stats_response' = {}
    /\ UNCHANGED <<buffer, stats, last_flush_time, shutdown_event, in_flight,
                   store_vars, consume_vars, timer_vars, http_pc, http_response,
                   lifespan_pc, drained, latest, nonempty_since, router_vars,
                   source_vars, peer_vars, lock_vars, newest, since_flush>>

\* ---------------------------------------------------------------- lifespan
\* The code after the yield (lines 64-80): cancel the timer task, flush what
\* is left, close.
LifespanShutdown ==
    /\ lifespan_pc = "running"
    /\ LoopFree
    /\ timer_pc' = IF timer_pc = "sleep" THEN "cancelled" ELSE timer_pc
    /\ wake_at' = IF timer_pc = "sleep" THEN 0 ELSE wake_at
    /\ IF len(buffer) > 0 /\ ~persist_nothing(buffer)
       THEN /\ Drain(buffer, "lifespan")
            /\ lifespan_pc' = "flush"
       ELSE /\ lifespan_pc' = "closed"
            /\ UNCHANGED <<buffer, in_flight, drained, latest, nonempty_since>>
    /\ UNCHANGED <<stats, last_flush_time, shutdown_event, store_vars,
                   consume_vars, current_time, http_pc, http_response, unseen_vars>>

\* The loop is torn down after the lifespan closed: consume() is cancelled
\* at its await and runs its finally clause.
TaskCancelled ==
    /\ lifespan_pc = "closed"
    /\ consume_pc = "next_msg"
    /\ LoopFree
    /\ ConsumeFinally
    /\ UNCHANGED <<stats, last_flush_time, shutdown_event, store_vars, trace_id,
                   timer_vars, http_pc, http_response, lifespan_pc, consumed, dlq, overwritten,
                   repeats, wellformed, unseen_vars>>

\* ------------------------------------------------------------- environment
\* signal_handler (lines 44-46)
SignalShutdown ==
    /\ ~shutdown_event
    /\ shutdown_event' = TRUE
    /\ UNCHANGED <<buffer, stats, last_flush_time, db, in_flight, consume_pc,
                   trace_id, timer_pc, wake_at, current_time, http_pc, http_response,
                   lifespan_pc, consumed, dlq, overwritten,
                   drained, db_connects, last_persist, flushed, latest, repeats,
                   wellformed, nonempty_since, unseen_vars>>

\* Time passes while no handler runs; a due wake of the timer task is not
\* delayed.  Only the timer task reads the clock: once it has ended, the
\* passing of time changes nothing the program does and is not followed.
TimePasses ==
    /\ LoopFree
    /\ timer_pc = "sleep"
    /\ wake_at > time_time
    /\ last_flush_time' = Aged(last_flush_time)
    /\ wake_at' = wake_at - 1
    /\ nonempty_since' = IF len(buffer) > 0 THEN Aged(nonempty_since) ELSE nonempty_since
    /\ UNCHANGED <<buffer, in_flight, current_time, stats, shutdown_event, db,
                   consume_pc, trace_id, timer_pc, http_pc, http_response, lifespan_pc, consumed,
                   dlq, overwritten, drained, db_connects, last_persist, flushed,
                   latest, repeats, wellformed, router_vars, source_vars,
                   stats_response, peer_vars, lock_vars, newest>>

Tick == TimePasses /\ UNCHANGED since_flush

\* The same step with the time since the last triggered flush followed.
TimedTick ==
    /\ TimePasses
    /\ since_flush' = IF since_flush < BATCH_INTERVAL THEN since_flush + 1 ELSE since_flush

\* ---------------------------------------------------------------- collector
\* What the JSON value under 'records' can be ("absent": no such field), and
\* for a list the records in it: a JSON object the collector's WeatherData
\* accepts ("valid"), a JSON object it rejects ("invalid"), or a JSON value
\* that is no object, such as a number or a string ("not_object").
RecordsKinds == {"absent", "null", "number", "string", "object", "list"}
RecordKinds == {"valid", "invalid", "not_object"}
ItemLists ==
    {<<>>} \cup {<<a>> : a \in RecordKinds}
           \cup {<<a, b>> : a \in RecordKinds, b \in RecordKinds}
BatchBodies ==
    {[records |-> k, items |-> <<>>] : k \in RecordsKinds \ {"list"}}
    \cup {[records |-> "list", items |-> l] : l \in ItemLists}

\* Collector line 178: len(batch_data.get('records', [])) in the log line
\* that precedes every check; len() of None or of a number raises TypeError.
len_raises(body) == body.records \in {"null", "number"}

\* Collector line 186: 'records' not in batch_data or not isinstance(..., list)
invalid_batch_format(body) == body.records # "list"

\* process_weather_data (collector lines 114-149) for one record: what it
\* returns as success and the topic it produces to.  A valid object is
\* produced to the data topic (lines 121-130); an object WeatherData rejects
\* raises ValidationError and is produced to the DLQ topic (lines 132-145);
\* a value that is no object raises TypeError at lines 118-119 (number,
\* null: `in` is not defined; string, list: no item assignment by key),
\* which `except Exception` at line 147 answers with (False, str(e)) and
\* produces nothing.
process_weather_data(record) ==
    [success |-> record = "valid",
     topic   |-> IF record = "valid" THEN "data"
                 ELSE IF record = "invalid" THEN "dlq" ELSE "none"]

\* The results list of collector lines 190-201, one entry per record in order.
batch_results(items) ==
    [i \in 1..Len(items) |->
        [index |-> i - 1, success |-> process_weather_data(items[i]).success]]

\* Number of records of the list that were produced to the given topic.
produced_to(items, topic) ==
    Cardinality({i \in 1..Len(items) : process_weather_data(items[i]).topic = topic})

\* The summary of collector lines 206-221; failures holds the indices of
\* the entries of results whose success is false, in order.
batch_summary_of(results) ==
    LET successes == Cardinality({i \in 1..Len(results) : results[i].success})
        failed_at(r) == ~r.success
    IN  [total      |-> Len(results),
         successful |-> successes,
         failed     |-> Len(results) - successes,
         failures   |-> [i \in 1..Len(SelectSeq(results, failed_at)) |->
                            SelectSeq(results, failed_at)[i].index]]

\* The status ingest_weather_data_batch answers with (collector lines
\* 174-225): an exception of line 178 is raised outside the try and leaves
\* the handler (500); no producer is 503; the HTTPException(400) of line
\* 188 is raised inside the try, caught by `except Exception` at line 223
\* and raised again with status 500; a list is processed and answered 200.
batch_response_status(body, has_producer) ==
    IF len_raises(body) THEN 500
    ELSE IF ~has_producer THEN 503
    ELSE IF invalid_batch_format(body) THEN 500
    ELSE 200

\* POST /weather-data/batch with the given body.
PostBatch(body) ==
    /\ Len(batch_request) < MaxBatches
    /\ batch_request' = Append(batch_request, body)
    /\ batch_status' = batch_response_status(body, collector_producer)
    /\ IF batch_response_status(body, collector_producer) = 200
       THEN /\ produced' = [topic |-> produced.topic + produced_to(body.items, "data"),
                            dlq   |-> produced.dlq + produced_to(body.items, "dlq")]
            /\ batch_summary' = {batch_summary_of(batch_results(body.items))}
       ELSE /\ produced' = produced
            /\ batch_summary' = {}
    /\ UNCHANGED <<collector_producer, consumer_service_vars, query_vars,
                   generator_vars>>

CollectorNext == \E body \in BatchBodies : PostBatch(body)

CollectorInit ==
    /\ ConsumerStarted
    /\ \E created \in BOOLEAN : CollectorStarted(created)
    /\ QueryStarted
    /\ GeneratorStarted

CollectorSpec == CollectorInit /\ [][CollectorNext]_vars

\* ------------------------------------------------------- query: GET /weather
\* json.dumps(results) at query line 231 and json.loads(cached_data) at line
\* 191: the text of a result list, and the list a text stands for.
json_dumps(results) == [json |-> results]
json_loads(text) == text.json

\* Query lines 197-222: the rows of the station (within the range when one
\* is given), newest first, as the list of dicts the handler builds.
select_weather(key) == [station_id |-> key[2], range |-> key[3],
                        rows |-> weather_table[key[2]]]

\* Query line 189 `if cached_data:` after redis_client.get(cache_key) at line
\* 188; a get that raises leaves the try block at line 192 with no data.
never_cache_hit(cached) == FALSE

is_cache_hit(cached) == cached # {}

\* What can happen to the calls the handler makes: redis_client.get returns
\* or raises; get_db_connection returns a connection or None (lines 34-48),
\* and cur.execute can raise once the cursor is open; redis_client.setex
\* returns or raises.
DbOutcomes == {"ok", "no_connection", "execute_error"}

\* GET /weather/{station_id} (query lines 170-246), the whole handler.
GetWeatherData(key, get_ok, db_outcome, setex_ok) ==
    LET cached == IF get_ok THEN query_cache[key] ELSE {}
        results == select_weather(key)
    IN  /\ queries < MaxQueries
        /\ queries' = queries + 1
        /\ IF is_cache_hit(cached)
           THEN \* lines 189-191: answered from the cache
                /\ query_response' =
                       {[key |-> key, redis_get |-> get_ok, status |-> 200,
                         served_from |-> "cache",
                         body |-> {json_loads(c) : c \in cached},
                         setex |-> FALSE]}
                /\ UNCHANGED <<query_cache, db_cursors>>
           ELSE IF db_outcome = "ok"
           THEN \* lines 196-234: one cursor, the result cached and returned
                /\ db_cursors' = db_cursors + 1
                /\ query_cache' = IF setex_ok
                                  THEN [query_cache EXCEPT ![key] = {json_dumps(results)}]
                                  ELSE query_cache
                /\ query_response' =
                       {[key |-> key, redis_get |-> get_ok, status |-> 200,
                         served_from |-> "db", body |-> {results},
                         setex |-> setex_ok]}
           ELSE \* lines 236-244: conn is None or execute raised
                /\ db_cursors' = IF db_outcome = "execute_error"
                                 THEN db_cursors + 1 ELSE db_cursors
                /\ query_response' =
                       {[key |-> key, redis_get |-> get_ok, status |-> 503,
                         served_from |-> "none", body |-> {},
                         setex |-> FALSE]}
                /\ UNCHANGED query_cache
        /\ UNCHANGED <<weather_table, consumer_service_vars, collector_vars,
                       generator_vars>>

\* CACHE_TTL seconds after a setex the entry is gone (query lines 66, 228-232).
CacheExpires(key) ==
    /\ query_cache[key] # {}
    /\ query_cache' = [query_cache EXCEPT ![key] = {}]
    /\ UNCHANGED <<weather_table, db_cursors, queries, query_response,
                   consumer_service_vars, collector_vars, generator_vars>>

\* The consumer writes to the rows of a station.
TableChanges(station_id) ==
    /\ weather_table[station_id] = "old"
    /\ weather_table' = [weather_table EXCEPT ![station_id] = "new"]
    /\ UNCHANGED <<query_cache, db_cursors, queries, query_response,
                   consumer_service_vars, collector_vars, generator_vars>>

QueryNext ==
    \/ \E key \in QueryKeys, get_ok \in BOOLEAN, db_outcome \in DbOutcomes,
          setex_ok \in BOOLEAN : GetWeatherData(key, get_ok, db_outcome, setex_ok)
    \/ \E key \in QueryKeys : CacheExpires(key)
    \/ \E station_id \in Stations : TableChanges(station_id)

QuerySpec == Init /\ [][QueryNext]_vars

Next ==
    \/ \E m \in Messages : Consume(m)
    \/ SourceError
    \/ PersistEnd
    \/ TimerWake
    \/ ManualFlush
    \/ ManualFlushReturn
    \/ LifespanShutdown
    \/ TaskCancelled
    \/ SignalShutdown
    \/ Tick

Spec == Init /\ [][Next]_vars

\* The ingestion path with the dead-letter topic followed: messages arrive,
\* flushes are made by size and on request, the signal and a source error
\* end the loop.  The timer task is left out: it touches neither the
\* dead-letter path nor what a rejected message leaves behind.
\* The iteration, with the message the code accepted remembered as the most
\* recent one of its natural key.
DurableConsume(m) ==
    /\ \E delivered \in BOOLEAN : ConsumeMessage(m, delivered)
    /\ newest' = IF ~shutdown_event /\ Accepted(m)
                 THEN [nk \in DOMAIN newest \cup {natural_key(m)} |->
                          IF nk = natural_key(m) THEN Fields(m) ELSE newest[nk]]
                 ELSE newest
    /\ UNCHANGED <<router_vars, source_vars, stats_response, peer_vars,
                   lock_vars, since_flush>>

DurableNext ==
    \/ \E m \in Messages : DurableConsume(m)
    \/ PersistEnd
    \/ ManualFlush
    \/ ManualFlushReturn
    \/ SignalShutdown

DurableSpec == Init /\ [][DurableNext]_vars

\* ---------------------------------------------------------------- generator
\* The tasks that were created and have not ended: "created" is scheduled
\* by asyncio.create_task and not yet run, "awaiting" is suspended at an
\* await inside the loop (the send at line 172, the gather at line 219 or
\* the sleep at line 226).
ActiveTasks ==
    {id \in DOMAIN generation_tasks : generation_tasks[id] \in {"created", "awaiting"}}

\* POST /start (generator lines 244-282): the flag is read, and only when
\* it is false it is set and a task is created; no await in the handler.
start_generation ==
    /\ generator_requests < MaxRequests
    /\ generator_requests' = generator_requests + 1
    /\ LET already_running == is_generating
       IN  IF ~already_running
           THEN /\ is_generating' = TRUE
                /\ generation_tasks' = Append(generation_tasks, "created")
           ELSE UNCHANGED <<is_generating, generation_tasks>>
    /\ UNCHANGED <<stop_seen, revived>>
    /\ UNCHANGED <<consumer_service_vars, collector_vars, query_vars>>

\* POST /stop (generator lines 284-305): the flag is cleared; the task is
\* neither cancelled nor awaited.
stop_generation ==
    /\ generator_requests < MaxRequests
    /\ generator_requests' = generator_requests + 1
    /\ is_generating' = FALSE
    /\ stop_seen' = stop_seen \cup ActiveTasks
    /\ UNCHANGED <<generation_tasks, revived>>
    /\ UNCHANGED <<consumer_service_vars, collector_vars, query_vars>>

\* generate_data_task (generator lines 119-229) from where it was resumed
\* to its next await: it comes to `while is_generating` (line 134) and
\* either does another round and suspends again, or leaves the loop.
generate_data_task(id) ==
    /\ id \in ActiveTasks
    /\ IF is_generating
       THEN /\ generation_tasks' = [generation_tasks EXCEPT ![id] = "awaiting"]
            /\ revived' = IF id \in stop_seen THEN revived \cup {id} ELSE revived
       ELSE /\ generation_tasks' = [generation_tasks EXCEPT ![id] = "ended"]
            /\ UNCHANGED revived
    /\ UNCHANGED <<is_generating, stop_seen, generator_requests>>
    /\ UNCHANGED <<consumer_service_vars, collector_vars, query_vars>>

\* An exception inside the loop (generator lines 227-229): logged, the flag
\* cleared, the task ends.
generate_data_task_fails(id) ==
    /\ id \in ActiveTasks
    /\ generation_tasks[id] = "awaiting"
    /\ generation_tasks' = [generation_tasks EXCEPT ![id] = "ended"]
    /\ is_generating' = FALSE
    /\ UNCHANGED <<stop_seen, revived, generator_requests>>
    /\ UNCHANGED <<consumer_service_vars, collector_vars, query_vars>>

GeneratorNext ==
    \/ start_generation
    \/ stop_generation
    \/ \E id \in DOMAIN generation_tasks : generate_data_task(id)
    \/ \E id \in DOMAIN generation_tasks : generate_data_task_fails(id)

GeneratorSpec == Init /\ [][GeneratorNext]_vars

\* -------------------------------------------------------------- buffer_lock
\* The coroutines that reach a `with buffer_lock:` (threading.Lock, line
\* 191): consume() itself at lines 333 and 345, and persist_batch at lines
\* 210 and 252 on behalf of consume() (line 352), periodic_flush_task()
\* (line 481), flush_buffer() and the lifespan's shutdown code (line 73).
\* All of them run on the one event-loop thread, and none of the four
\* blocks contains an await.
LockTasks == {"consume", "periodic_flush_task", "flush_buffer", "lifespan"}

\* The lock kept when the body of the with-block raised.
with_exit_keeps_on_error(raised) == ~raised

\* `with buffer_lock:` releases the lock when the block is left, by its
\* last statement or by an exception (Lock.__exit__).
with_exit_releases(raised) == TRUE

\* The first statement of a run: an iteration of consume() starts at the
\* duplicate test (line 329), the other three at the call of persist_batch.
first_statement(task) == IF task = "consume" THEN "line_329" ELSE "line_203"

\* Where an exception that leaves persist_batch or a with-block of
\* consume() is caught: consume() has its handler at line 355, the timer at
\* line 486; flush_buffer() and the lifespan let it pass, which ends the run.
handler_of(task) == IF task = "consume" THEN "line_355" ELSE "end"

\* The event loop resumes a coroutine: consume() got a message, the timer
\* woke with a flush due, POST /flush arrived, or the lifespan shuts down.
LockRunStarts(task) ==
    /\ lock_task = "none"
    /\ handler_runs < MaxRuns
    /\ handler_runs' = handler_runs + 1
    /\ lock_task' = task
    /\ lock_pc' = first_statement(task)
    /\ UNCHANGED buffer_lock

\* buffer_lock.acquire() on entry to the with-block whose body is `body`:
\* threading.Lock is not re-entrant, and the only thread that could release
\* it is the one that waits, so a held lock blocks the loop for good.
lock_acquire(body) ==
    IF buffer_lock = "free"
    THEN buffer_lock' = lock_task /\ lock_pc' = body
    ELSE lock_pc' = "blocked" /\ UNCHANGED buffer_lock

\* Leaving a with-block: to `next` after its last statement, or to
\* `handler` with the exception its body raised.
lock_exit(raised, next, handler) ==
    /\ buffer_lock' = IF with_exit_releases(raised) THEN "free" ELSE buffer_lock
    /\ lock_pc' = IF raised THEN handler ELSE next

\* One statement of the running coroutine.  dup, due, empty and committed
\* are what the tests at lines 330, 349, 203 and the store decide; raised
\* is whether the body of a with-block raises.
LockStatement(dup, due, empty, committed, raised) ==
    /\ lock_task # "none"
    /\ UNCHANGED handler_runs
    /\ CASE lock_pc = "line_329" ->
                /\ lock_pc' = IF dup THEN "line_333" ELSE "line_338"
                /\ UNCHANGED <<buffer_lock, lock_task>>
         [] lock_pc = "line_333" ->
                lock_acquire("line_334") /\ UNCHANGED lock_task
         [] lock_pc = "line_334" ->
                lock_exit(raised, "line_338", "line_355") /\ UNCHANGED lock_task
         [] lock_pc = "line_338" ->
                lock_pc' = "line_345" /\ UNCHANGED <<buffer_lock, lock_task>>
         [] lock_pc = "line_345" ->
                lock_acquire("line_346") /\ UNCHANGED lock_task
         [] lock_pc = "line_346" ->
                lock_exit(raised, "line_349", "line_355") /\ UNCHANGED lock_task
         [] lock_pc = "line_349" ->
                /\ lock_pc' = IF due THEN "line_203" ELSE "end"
                /\ UNCHANGED <<buffer_lock, lock_task>>
         [] lock_pc = "line_355" ->
                lock_pc' = "end" /\ UNCHANGED <<buffer_lock, lock_task>>
         [] lock_pc = "line_203" ->
                /\ lock_pc' = IF empty THEN "end" ELSE "line_210"
                /\ UNCHANGED <<buffer_lock, lock_task>>
         [] lock_pc = "line_210" ->
                lock_acquire("line_211") /\ UNCHANGED lock_task
         [] lock_pc = "line_211" ->
                lock_exit(raised, "line_215", handler_of(lock_task))
                /\ UNCHANGED lock_task
         [] lock_pc = "line_215" ->
                /\ lock_pc' = IF committed THEN "line_252" ELSE "end"
                /\ UNCHANGED <<buffer_lock, lock_task>>
         [] lock_pc = "line_252" ->
                lock_acquire("line_253") /\ UNCHANGED lock_task
         [] lock_pc = "line_253" ->
                \* inside the try of line 215: line 273 catches, 0 is returned
                lock_exit(raised, "end", "end") /\ UNCHANGED lock_task
         [] lock_pc = "end" ->
                \* the coroutine reaches its next await, or returns
                /\ lock_task' = "none"
                /\ lock_pc' = "idle"
                /\ UNCHANGED buffer_lock
         [] OTHER -> FALSE

LockRun ==
    /\ \E task \in LockTasks : LockRunStarts(task)
    /\ UNCHANGED <<consumer_data_vars, peer_vars>>

LockStep ==
    /\ \E dup, due, empty, committed, raised \in BOOLEAN :
           LockStatement(dup, due, empty, committed, raised)
    /\ UNCHANGED <<consumer_data_vars, peer_vars>>

LockNext == LockRun \/ LockStep

\* A coroutine the loop is running executes its next statement.
LockSpec == Init /\ [][LockNext]_vars /\ WF_vars(LockStep)

RouterNext ==
    \/ \E m \in Messages : RoutedConsume(m)
    \/ SourceError
    \/ PersistEnd
    \/ ManualFlush
    \/ ManualFlushReturn
    \/ SignalShutdown

RouterSpec == Init /\ [][RouterNext]_vars

\* The ingestion path with the source's committed offset followed.
SourceNext ==
    \/ \E m \in Messages : SourcedConsume(m)
    \/ AutoCommit
    \/ SourceError
    \/ PersistEnd
    \/ LifespanShutdown
    \/ TaskCancelled
    \/ SignalShutdown

SourceSpec == Init /\ [][SourceNext]_vars

\* The running service with GET /stats requests followed.
StatsNext ==
    \/ \E m \in Messages : Consume(m)
    \/ PersistEnd
    \/ ManualFlush
    \/ ManualFlushReturn
    \/ GetStats
    \/ GetStatsReturn
    \/ SignalShutdown

StatsSpec == Init /\ [][StatsNext]_vars

\* The running service with the time since the last triggered flush
\* followed: the source delivers readings the data model accepts, flushes
\* are made by size, by time and on request, and the signal ends the timer
\* task.
TimingNext ==
    \/ \E m \in KeyMsgs : Consume(m)
    \/ TimedPersistEnd
    \/ TimerWake
    \/ ManualFlush
    \/ ManualFlushReturn
    \/ SignalShutdown
    \/ TimedTick

TimingSpec == Init /\ [][TimingNext]_vars

\* The event loop runs every task that is ready: a persist_batch call that
\* was started returns, a response leaves its handler, and once lifespan has
\* closed the loop is torn down and cancels consume().  Time passes and the
\* timer task wakes when its sleep ends however often other handlers run in
\* between (the loop serves its ready queue in order), hence the strong
\* fairness of these two.  Nothing obliges the source to deliver a message,
\* a client to call POST /flush, a signal to arrive or the server to be
\* stopped.
FairSpec ==
    /\ Spec
    /\ WF_vars(PersistEnd)
    /\ WF_vars(ManualFlushReturn)
    /\ WF_vars(TaskCancelled)
    /\ SF_vars(TimerWake)
    /\ SF_vars(Tick)


\* ================================================================== claims
Offsets == 0 .. (consumed - 1)

InBuffer(o) == \E k \in DOMAIN buffer : buffer[k].offset = o

DrainCount(o) == IF o \in DOMAIN drained THEN drained[o] ELSE 0

CallOffsets(call) == {e.offset : e \in call.data_to_persist}

FlushPositions ==
    (IF consume_pc \in {"size_flush", "final_flush"} THEN 1 ELSE 0)
    + (IF timer_pc = "flush" THEN 1 ELSE 0)
    + (IF http_pc = "flush" THEN 1 ELSE 0)
    + (IF lifespan_pc = "flush" THEN 1 ELSE 0)

\* The limits of the data model hold of a stored value.
WithinLimits(r) ==
    /\ r.temperature >= -100 /\ r.temperature <= 60
    /\ r.humidity >= 0 /\ r.humidity <= 100
    /\ r.wind_speed >= 0

\* C1: the Buffer holds at most one record per natural key, and the entry
\* of a key is the record of the last well-formed message of that key
\* processed since the last drain (last-write-wins); a key has an entry
\* exactly when such a message was processed.
C1_LastWriteWins ==
    /\ \A k1, k2 \in DOMAIN buffer :
           natural_key(buffer[k1]) = natural_key(buffer[k2]) => k1 = k2
    /\ {natural_key(buffer[k]) : k \in DOMAIN buffer} = DOMAIN latest
    /\ \A k \in DOMAIN buffer : Fields(buffer[k]) = latest[natural_key(buffer[k])]

\* C2: every upserted record is in exactly one place: still in the Buffer,
\* replaced by a later upsert under the same Buffer key, or in exactly one
\* drained snapshot.  No drain loses an upsert and no entry is drained
\* twice, whichever path drains.
C2_NoLostNoDoubleDrain ==
    /\ \A o \in Offsets :
           /\ DrainCount(o) <= 1
           /\ ~(InBuffer(o) /\ o \in overwritten)
           /\ ~(InBuffer(o) /\ DrainCount(o) > 0)
           /\ ~(o \in overwritten /\ DrainCount(o) > 0)
    /\ Cardinality({o \in Offsets : InBuffer(o) \/ o \in overwritten \/ DrainCount(o) = 1})
           = stats.messages_processed
    /\ \A c1, c2 \in in_flight :
           c1 # c2 => CallOffsets(c1) \cap CallOffsets(c2) = {}
    /\ \A c \in in_flight : \A o \in CallOffsets(c) : DrainCount(o) = 1

\* Three upserts, one replaced, one drained, one still buffered.
C2_Witness ==
    /\ stats.messages_processed = 3
    /\ \E o1, o2, o3 \in Offsets :
           /\ o1 \in overwritten
           /\ DrainCount(o2) = 1
           /\ InBuffer(o3)

\* C3: at most one drain()+persist() pair is in flight: no flush path
\* drains while another has drained and not yet returned.
C3_OneFlushInFlight ==
    /\ Cardinality(in_flight) <= 1
    /\ FlushPositions <= 1
    /\ FlushPositions = Cardinality(in_flight)

\* The timer's flush is in flight after a flush of another path completed.
C3_Witness ==
    /\ \E call \in in_flight : call.caller = "periodic_flush_task"
    /\ last_persist.caller \in {"consume", "flush_buffer"}

\* C5: in_memory_duplicates counts exactly the well-formed messages whose
\* natural key had been upserted since the last drain; a key's first
\* arrival, also its first arrival after a flush, is not counted.
C5_DuplicateCounter == stats.in_memory_duplicates = repeats

\* C6: the upsert of the BATCH_SIZE-th distinct natural key since the last
\* drain triggers a flush of exactly the latest records of those keys; when
\* the store commits, those BATCH_SIZE records are the rows written and the
\* Buffer is empty.
C6_SizeFlush ==
    /\ [](consume_pc = "next_msg" => Cardinality(DOMAIN latest) < BATCH_SIZE)
    /\ [][/\ (consume_pc = "next_msg" /\ Cardinality(DOMAIN latest) = BATCH_SIZE - 1
                /\ wellformed' = wellformed + 1 /\ repeats' = repeats)
             => \E call \in in_flight' :
                    /\ call.caller = "consume"
                    /\ Cardinality(call.data_to_persist) = BATCH_SIZE
                    /\ \A nk \in DOMAIN latest :
                           \E e \in call.data_to_persist : Fields(e) = latest[nk]
                    /\ len(buffer') = 0
          /\ \A call \in in_flight :
                (/\ call.caller = "consume"
                 /\ call \notin in_flight'
                 /\ stats'.batches_persisted = stats.batches_persisted + 1)
                => /\ Cardinality(call.data_to_persist) = BATCH_SIZE
                   /\ last_persist'.returned = BATCH_SIZE
                   /\ len(buffer') = 0
                   /\ \A e \in call.data_to_persist :
                          inserted_row(e) \in db'
                   /\ \A r \in db' :
                          (\A e \in call.data_to_persist : ~conflicts(r, e))
                          => r \in db
         ]_vars

\* C7: when a persist_batch call commits, the Buffer is empty as it returns.
C7_EmptyAfterFlush ==
    [][stats'.batches_persisted = stats.batches_persisted + 1 => len(buffer') = 0]_vars

\* A manual flush committed and the Buffer is empty.
C7_Witness ==
    /\ last_persist.caller = "flush_buffer"
    /\ last_persist.returned >= 1
    /\ stats.batches_persisted >= 1
    /\ len(buffer) = 0
    /\ in_flight = {}

\* C8: the periodic task calls persist_batch only at a wake at which the
\* interval has elapsed since the last flush and the Buffer is non-empty;
\* a store connection is opened only for a non-empty drained batch.
C8_TimerFlushOnlyWhenDue ==
    [][/\ (timer_pc = "sleep" /\ timer_pc' = "flush")
            => /\ wake_at = time_time
               /\ time_time - last_flush_time >= BATCH_INTERVAL
               /\ len(buffer) > 0
       /\ db_connects' # db_connects
            => \E call \in in_flight :
                   call \notin in_flight' /\ call.data_to_persist # {}
       /\ \A call \in in_flight' \ in_flight :
              call.data_to_persist # {} /\ len(buffer') = 0
      ]_vars

\* The timer called persist_batch a full interval after the last flush.
C8_Witness ==
    /\ timer_pc = "flush"
    /\ \E call \in in_flight :
           call.caller = "periodic_flush_task" /\ call.data_to_persist # {}
    /\ current_time - last_flush_time >= BATCH_INTERVAL

\* C9: while the periodic task runs, a wake at which the interval has
\* elapsed drains a non-empty Buffer, and the Buffer is never non-empty for
\* longer than the interval plus one wake period, so no record waits longer.
C9_TimerFlushBound ==
    /\ []((timer_pc = "sleep" /\ len(buffer) > 0)
            => time_time - nonempty_since <= BATCH_INTERVAL + WakePeriod)
    /\ [][(/\ timer_pc = "sleep" /\ timer_pc' # "cancelled"
           /\ wake_at = time_time
           /\ (wake_at' # wake_at \/ timer_pc' # timer_pc)
           /\ time_time - last_flush_time >= BATCH_INTERVAL
           /\ len(buffer) > 0)
          => /\ len(buffer') = 0
             /\ \E call \in in_flight' :
                    /\ call.caller = "periodic_flush_task"
                    /\ call.data_to_persist = {buffer[k] : k \in DOMAIN buffer}
         ]_vars

\* The timer flushed a record that had stayed below the size threshold.
C9_Witness ==
    /\ last_persist = [caller |-> "periodic_flush_task", returned |-> BATCH_SIZE - 1]
    /\ stats.batches_persisted = 1
    /\ db_connects = 1
    /\ len(buffer) = 0
    /\ timer_pc = "sleep"

\* C10: a message that fails parsing or a Record constraint never reaches
\* the Buffer, a drained batch or the store, and is not counted in
\* messages_processed.
C10_MalformedRejected ==
    /\ \A k \in DOMAIN buffer : WithinLimits(buffer[k])
    /\ \A call \in in_flight : \A e \in call.data_to_persist : WithinLimits(e)
    /\ \A r \in db : WithinLimits(r)
    /\ stats.messages_processed = wellformed

\* A malformed message was routed to the dead-letter path, a well-formed one buffered.
C10_Witness ==
    /\ consumed = 2
    /\ dlq = 1
    /\ wellformed = 1
    /\ stats.messages_processed = 1
    /\ len(buffer) = 1

\* The rows of the table that have the natural key of record e.
RowsOf(table, e) == {r \in table : conflicts(r, e)}

\* C11: a key K upserted with v1 and then with v2 has one Buffer entry,
\* holding v2, and the duplicate counter rose by one; a flush drains that
\* entry as it is, and when the flush commits the store has exactly one
\* row for K, with v2's temperature, humidity and wind_speed.
C11_UpsertTwiceThenFlush ==
    [][/\ \A nk \in DOMAIN latest :
              (/\ nk \in DOMAIN latest' /\ latest'[nk] # latest[nk]
               /\ \E k \in DOMAIN buffer : Fields(buffer[k]) = latest[nk])
              => /\ Cardinality({k \in DOMAIN buffer' :
                                    natural_key(buffer'[k]) = nk}) = 1
                 /\ \A k \in DOMAIN buffer' :
                        natural_key(buffer'[k]) = nk
                        => Fields(buffer'[k]) = latest'[nk]
                 /\ len(buffer') = len(buffer)
                 /\ stats'.in_memory_duplicates = stats.in_memory_duplicates + 1
       /\ \A call \in in_flight' \ in_flight :
              \A k \in DOMAIN buffer : buffer[k] \in call.data_to_persist
       /\ \A call \in in_flight \ in_flight' :
              stats'.batches_persisted = stats.batches_persisted + 1
              => \A e \in call.data_to_persist :
                     RowsOf(db', e) = {inserted_row(e)}
      ]_vars

\* Station st1 reported 12:00 twice, the second time with the second
\* reading; the flush committed and the table has that one row.
C11_Witness ==
    /\ consumed = 2
    /\ repeats = 1
    /\ stats.in_memory_duplicates = 1
    /\ stats.batches_persisted = 1
    /\ db_connects = 1
    /\ len(buffer) = 0
    /\ db = {[station_id |-> "st1", timestamp |-> "12:00",
              temperature |-> Reading2.temperature,
              humidity |-> Reading2.humidity,
              wind_speed |-> Reading2.wind_speed]}

\* C12: redelivery is idempotent: when a flush commits a batch made of
\* records that were all buffered and flushed before, the store has the
\* same rows with the same values as before.
C12_RedeliveryIdempotent ==
    [][\A call \in in_flight \ in_flight' :
           (/\ stats'.batches_persisted = stats.batches_persisted + 1
            /\ \A e \in call.data_to_persist : Fields(e) \in flushed)
           => db' = db
      ]_vars

\* C13: a flush is all-or-nothing in the store: when persist_batch returns,
\* either the transaction committed and every record of the drained batch
\* is a row, the other rows being as they were, or the table is exactly
\* as it was before the flush.  Nothing else changes the table.
C13_AllOrNothing ==
    [][/\ \A call \in in_flight \ in_flight' :
              IF stats'.batches_persisted = stats.batches_persisted + 1
              THEN /\ \A e \in call.data_to_persist : inserted_row(e) \in db'
                   /\ {r \in db' : \A e \in call.data_to_persist : ~conflicts(r, e)}
                          = {r \in db : \A e \in call.data_to_persist : ~conflicts(r, e)}
              ELSE db' = db
       /\ in_flight \subseteq in_flight' => db' = db
      ]_vars

\* A size-triggered flush of BATCH_SIZE records failed after an earlier
\* flush had committed: the table still has the rows of the earlier one.
C13_Witness ==
    /\ last_persist = [caller |-> "consume", returned |-> 0]
    /\ stats.batches_persisted = 1
    /\ db_connects = 2
    /\ Cardinality(db) = 1
    /\ \E o \in Offsets : DrainCount(o) = 1 /\ o > 0

\* C14: the records of a flush leave the Buffer when the snapshot is taken,
\* whatever the store does afterwards: when the persist step fails they are
\* not put back and no retry is started, so they are neither in the Buffer
\* nor written to the store, and no later flush drains them again.
C14_FailedFlushLosesBatch ==
    /\ [](\A o \in Offsets : DrainCount(o) >= 1 => ~InBuffer(o) /\ DrainCount(o) = 1)
    /\ [][/\ \A call \in in_flight' \ in_flight :
                /\ call.data_to_persist # {}
                /\ \A e \in call.data_to_persist : ~(\E k \in DOMAIN buffer' : buffer'[k] = e)
          /\ \A call \in in_flight \ in_flight' :
                stats'.batches_persisted = stats.batches_persisted
                => /\ buffer' = buffer
                   /\ \A e \in call.data_to_persist :
                          ~(\E k \in DOMAIN buffer' : buffer'[k].offset = e.offset)
                   /\ in_flight' = in_flight \ {call}
                   /\ db' = db
                   /\ drained' = drained
          ]_vars

\* A manual flush of the only record failed: the record is gone from the
\* Buffer and the table is empty.
C14_Witness ==
    /\ last_persist = [caller |-> "flush_buffer", returned |-> 0]
    /\ db_connects = 1
    /\ stats.messages_processed = 1
    /\ DrainCount(0) = 1
    /\ len(buffer) = 0
    /\ in_flight = {}
    /\ db = {}

\* The position at which the caller of a persist_batch call goes on.
Resumed(caller) ==
    CASE caller = "consume" -> consume_pc' = "next_msg"
      [] caller = "consume_finally" -> consume_pc' = "stopped"
      [] caller = "periodic_flush_task" -> timer_pc' \in {"sleep", "done"}
      [] caller = "flush_buffer" -> http_pc' = "respond"
      [] caller = "lifespan" -> lifespan_pc' = "closed"

\* C15: persist_batch returns the number of records it persisted when the
\* commit succeeds, and 0 when the buffer was empty or the connect, a write
\* or the commit failed; in every case it returns to its caller, which
\* goes on.
C15_PersistBatchReturn ==
    /\ [](\A outcome \in Outcomes : return_value(values(clear(buffer)), outcome) = 0)
    /\ [][\A call \in in_flight \ in_flight' :
              /\ Resumed(call.caller)
              /\ last_persist'.caller = call.caller
              /\ IF stats'.batches_persisted = stats.batches_persisted + 1
                 THEN /\ last_persist'.returned = Cardinality(call.data_to_persist)
                      /\ \A e \in call.data_to_persist : inserted_row(e) \in db'
                 ELSE /\ last_persist'.returned = 0
                      /\ db' = db
          ]_vars

\* A manual flush failed and returned 0, then a size-triggered flush
\* committed and returned BATCH_SIZE.
C15_Witness ==
    /\ last_persist = [caller |-> "consume", returned |-> BATCH_SIZE]
    /\ db_connects = 2
    /\ stats.batches_persisted = 1
    /\ Cardinality(db) = BATCH_SIZE
    /\ DrainCount(0) = 1

\* C16: POST /flush answers with a flushed count of 0 when the Buffer was
\* empty and when the persist step failed, and with the number of records
\* persisted when the flush committed; it always answers.
C16_FlushResponse ==
    [][/\ (http_pc = "idle" /\ http_pc' = "respond")
            => /\ len(buffer) = 0
               /\ http_response' = 0
               /\ UNCHANGED <<buffer, in_flight, db>>
       /\ \A call \in in_flight \ in_flight' :
              call.caller = "flush_buffer"
              => /\ http_pc' = "respond"
                 /\ http_response' =
                        IF stats'.batches_persisted = stats.batches_persisted + 1
                        THEN Cardinality(call.data_to_persist)
                        ELSE 0
      ]_vars

\* C17: the store holds at most one row per natural key; a write for a
\* key that has a row changes only temperature, humidity and wind_speed of
\* that row: it creates no second row, and no row ever loses or changes
\* its station_id or timestamp.
C17_OneRowPerKey ==
    /\ [](\A r1, r2 \in db : conflicts(r1, r2) => r1 = r2)
    /\ [][\A r \in db : Cardinality({r2 \in db' : conflicts(r2, r)}) = 1]_vars

\* The row of station st1 at 12:00 was written by one flush and updated by
\* a second one: still one row.
C17_Witness ==
    /\ stats.batches_persisted = 2
    /\ Cardinality(db) = 1
    /\ Cardinality(flushed) = 2
    /\ \A f \in flushed : f.station_id = "st1" /\ f.timestamp = "12:00"

\* C18: the Buffer key is injective on natural keys: two valid records
\* with different (station_id, timestamp) get different keys, so an upsert
\* replaces only an entry of its own natural key, and a message is counted
\* as a duplicate only when an entry of its own natural key is in the Buffer.
C18_BufferKeyInjective ==
    /\ [](\A m1, m2 \in {m \in Messages : Accepted(m)} :
             natural_key(m1) # natural_key(m2) => unique_key(m1) # unique_key(m2))
    /\ [][/\ \A k \in DOMAIN buffer \cap DOMAIN buffer' :
                natural_key(buffer'[k]) = natural_key(buffer[k])
          /\ stats'.in_memory_duplicates # stats.in_memory_duplicates
                => \E k \in DOMAIN buffer, k2 \in DOMAIN buffer' :
                       /\ buffer'[k2].offset = consumed
                       /\ natural_key(buffer[k]) = natural_key(buffer'[k2])
          ]_vars

\* The callers of persist_batch that run when the service shuts down:
\* lifespan's code after the yield and the finally clause of consume().
FinalCallers == {"lifespan", "consume_finally"}

\* The final flush took the whole Buffer: when a shutdown caller starts its
\* call, the call holds every entry of the Buffer and leaves it empty.
FinalFlushDrainsAll ==
    \A call \in in_flight' \ in_flight :
        call.caller \in FinalCallers =>
            /\ Cardinality(call.data_to_persist) = len(buffer)
            /\ \A k \in DOMAIN buffer : buffer[k] \in call.data_to_persist
            /\ len(buffer') = 0

\* The shutdown code ends with an empty Buffer: at the step in which
\* lifespan reaches its close calls, and at the step in which consume() ends.
EmptyAtCompletion ==
    /\ (lifespan_pc # "closed" /\ lifespan_pc' = "closed") => len(buffer') = 0
    /\ (consume_pc # "stopped" /\ consume_pc' = "stopped") => len(buffer') = 0

\* C19 as stated: on shutdown with N unflushed records, one final flush
\* persists all N records before the consumer and the connection are
\* closed, and the Buffer is empty when shutdown completes.
C19_FinalFlushPersistsAll ==
    [][/\ FinalFlushDrainsAll
       /\ EmptyAtCompletion
       /\ \A call \in in_flight \ in_flight' :
              call.caller \in FinalCallers =>
                  \A e \in call.data_to_persist : inserted_row(e) \in db'
      ]_vars

\* C19 amended: on shutdown with N unflushed records, one final flush
\* drains all N in a single call made before the close calls; if its
\* transaction commits, all N are rows of the table when the call returns,
\* otherwise none of them is written and the table is unchanged; in both
\* cases the Buffer is empty when the shutdown code completes.
C19_FinalFlushBestEffort ==
    [][/\ FinalFlushDrainsAll
       /\ EmptyAtCompletion
       /\ \A call \in in_flight \ in_flight' :
              call.caller \in FinalCallers =>
                  /\ db_connects' = db_connects + 1
                  /\ lifespan_pc # "closed" \/ call.caller # "lifespan"
                  /\ consume_pc # "stopped" \/ call.caller # "consume_finally"
                  /\ IF stats'.batches_persisted = stats.batches_persisted + 1
                     THEN /\ \A e \in call.data_to_persist : inserted_row(e) \in db'
                          /\ last_persist'.returned = Cardinality(call.data_to_persist)
                     ELSE /\ db' = db
                          /\ last_persist'.returned = 0
      ]_vars

\* lifespan's final flush committed the residual record of the Buffer after
\* an earlier batch of two, and lifespan went on to its close calls.
C19_Witness ==
    /\ lifespan_pc = "closed"
    /\ last_persist = [caller |-> "lifespan", returned |-> 1]
    /\ stats.batches_persisted = 2
    /\ Cardinality(db) = 3

\* C20: once shutdown_event is set, consume() finishes the message it is
\* processing and then eventually stops pulling messages and terminates,
\* whether or not a further message arrives from the source.
C20_LoopStopsAfterSignal == shutdown_event ~> (consume_pc = "stopped")

\* The positions in which periodic_flush_task() has ended: its loop was left
\* (line 468) or the task was cancelled by lifespan (line 68).
TimerEnded == timer_pc \in {"done", "cancelled"}

\* C21: once shutdown_event is set or lifespan's shutdown code ran, the
\* periodic flush task eventually ends; once ended it stays ended and starts
\* no further time-triggered flush.
C21_TimerTerminates ==
    /\ (shutdown_event \/ lifespan_pc # "running") ~> TimerEnded
    /\ [][TimerEnded =>
              /\ timer_pc' = timer_pc
              /\ \A call \in in_flight' \ in_flight : call.caller # "periodic_flush_task"
         ]_vars

\* The task flushed on time once, then the signal came and the task left
\* its loop at its next wake while records were waiting in the Buffer.
C21_Witness ==
    /\ timer_pc = "done"
    /\ shutdown_event
    /\ lifespan_pc = "running"
    /\ last_persist.caller = "periodic_flush_task"
    /\ len(buffer) > 0

\* C22: the shutdown sequence always runs to completion: once lifespan's
\* shutdown code has started its final flush it reaches its close calls,
\* and it does so in the very step in which persist_batch returns, whether
\* the connect, a write or the commit failed or the transaction committed.
C22_ShutdownCompletes ==
    /\ (lifespan_pc = "flush") ~> (lifespan_pc = "closed")
    /\ [](lifespan_pc \in {"running", "flush", "closed"})
    /\ [][\A call \in in_flight \ in_flight' :
              call.caller = "lifespan" => lifespan_pc' = "closed"
         ]_vars

\* lifespan closed after a final flush that failed: the one record that was
\* processed is neither in the Buffer nor in the table.
C22_Witness ==
    /\ lifespan_pc = "closed"
    /\ last_persist = [caller |-> "lifespan", returned |-> 0]
    /\ stats.messages_processed = 1
    /\ db_connects = 1
    /\ db = {}
    /\ len(buffer) = 0

\* The steps in which the source iterator raised: consume() leaves its loop
\* without having pulled a message, while the service is up.
SourceErrorStep ==
    /\ consume_pc = "next_msg" /\ consume_pc' # "next_msg"
    /\ consumed' = consumed
    /\ lifespan_pc = "running"

\* C23: on a fatal source error the loop is not restarted: it makes one
\* final flush of what the Buffer holds (none when it is empty) and exits
\* when that flush returns, and no message is consumed afterwards.
C23_NoRestartAfterSourceError ==
    [][/\ SourceErrorStep =>
              IF len(buffer) > 0
              THEN /\ consume_pc' = "final_flush"
                   /\ in_flight' \ in_flight =
                          {[caller |-> "consume_finally",
                            data_to_persist |-> {buffer[k] : k \in DOMAIN buffer}]}
              ELSE consume_pc' = "stopped" /\ in_flight' = in_flight
       /\ \A call \in in_flight \ in_flight' :
              call.caller = "consume_finally" => consume_pc' = "stopped"
       /\ consume_pc = "final_flush" =>
              consume_pc' \in {"final_flush", "stopped"}
       /\ consume_pc \in {"final_flush", "stopped"} =>
              /\ consumed' = consumed
              /\ stats'.messages_processed = stats.messages_processed
              /\ \A call \in in_flight' \ in_flight : call.caller # "consume_finally"
       /\ consume_pc = "stopped" => consume_pc' = "stopped"
      ]_vars

\* The source failed with one record buffered and messages still to come:
\* the record was flushed, the loop has ended, the service is still up.
C23_Witness ==
    /\ consume_pc = "stopped"
    /\ last_persist = [caller |-> "consume_finally", returned |-> 1]
    /\ ~shutdown_event
    /\ lifespan_pc = "running"
    /\ consumed = 1

\* The steps in which send_to_dlq was called and the delivery failed.
DeliveryFailedStep == dlq_dropped' # dlq_dropped

\* C24: a failed dead-letter delivery is swallowed: the message is dropped
\* (it reaches the topic neither then nor by a later retry), the Buffer and
\* the counters are unchanged, no flush is started, and the loop stays at
\* its next message.
C24_DlqFailureSwallowed ==
    [][/\ DeliveryFailedStep =>
              /\ dlq_topic' = dlq_topic
              /\ buffer' = buffer
              /\ stats' = stats
              /\ in_flight' = in_flight
              /\ consume_pc = "next_msg" /\ consume_pc' = "next_msg"
              /\ consumed' = consumed + 1
              /\ dlq' = dlq + 1
       /\ dlq_topic' # dlq_topic =>
              /\ consumed' = consumed + 1
              /\ dlq' = dlq + 1
              /\ Cardinality(dlq_topic' \ dlq_topic) = 1
      ]_vars

\* A delivery failed with a record buffered, and the loop went on: the
\* next message was accepted and counted.
C24_Witness ==
    /\ Cardinality(dlq_dropped) = 1
    /\ dlq_topic = {}
    /\ dlq = 1
    /\ consumed = 3
    /\ stats.messages_processed = 2
    /\ consume_pc = "next_msg"

\* C25: every message on the dead-letter topic carries an error reason, the
\* original payload and a trace id: it is an envelope with the fields
\* error, original_message and trace_id whose original_message is the
\* payload that was rejected.
C25_DlqMessageShape ==
    \A d \in dlq_topic :
        /\ {"error", "original_message", "trace_id"} \subseteq DOMAIN d
        /\ d.original_message \in Messages

\* C26: last_flush_time is set to the present when a size-triggered or a
\* time-triggered flush returns, whether or not its transaction committed,
\* and the periodic task starts a flush only when a full interval has
\* passed since a size-triggered or time-triggered flush last returned.
C26_NoEarlyRetrigger ==
    [][/\ \A call \in in_flight \ in_flight' :
              call.caller \in TriggeredCallers => last_flush_time' = time_time
       /\ \A call \in in_flight' \ in_flight :
              call.caller = "periodic_flush_task" => since_flush >= BATCH_INTERVAL
      ]_vars

\* Two readings were flushed by size; the third waited a full interval and
\* the periodic task has just started its flush.
C26_Witness ==
    /\ timer_pc = "flush"
    /\ last_persist.caller = "consume"
    /\ consumed = 3
    /\ since_flush = BATCH_INTERVAL
    /\ \E call \in in_flight : call.caller = "periodic_flush_task"

\* C27: no message is committed at the source before it has been written
\* to the Buffer: the committed offset never passes a message of accepted
\* format that was pulled and not upserted.
C27_CommitAfterUpsert ==
    \A o \in unbuffered : committed_offset <= o

\* The steps in which a GET /stats request is answered.
StatsAnswered == stats_response = {} /\ stats_response' # {}

\* C28: GET /stats answers with the current values of the three counters
\* and the current number of Buffer entries, and changes neither the
\* Buffer nor the counters nor last_flush_time (nor the table, nor the
\* flushes in flight).
C28_StatsReadOnly ==
    [][StatsAnswered =>
           /\ stats_response' =
                  {[messages_processed |-> stats.messages_processed,
                    batches_persisted |-> stats.batches_persisted,
                    buffer_size |-> Cardinality(DOMAIN buffer),
                    in_memory_duplicates |-> stats.in_memory_duplicates]}
           /\ buffer' = buffer
           /\ stats' = stats
           /\ last_flush_time' = last_flush_time
           /\ db' = db
           /\ in_flight' = in_flight
      ]_vars

\* Three readings: two were flushed by size, the third overwrote nothing
\* and waits in the Buffer, and the answer says so.
C28_Witness ==
    stats_response = {[messages_processed |-> 3, batches_persisted |-> 1,
                       buffer_size |-> 1, in_memory_duplicates |-> 0]}

\* C29: batches_persisted grows by exactly one in the step in which a
\* flush returns with its transaction committed, and is unchanged in every
\* other step: a flush whose connect, write or commit failed, a flush
\* request that finds the Buffer empty, and everything that is no flush.
C29_BatchesPersisted ==
    [][/\ \A call \in in_flight \ in_flight' :
              stats'.batches_persisted =
                  stats.batches_persisted
                  + (IF /\ last_persist'.returned = Cardinality(call.data_to_persist)
                        /\ \A e \in call.data_to_persist : inserted_row(e) \in db'
                     THEN 1 ELSE 0)
       /\ in_flight \ in_flight' = {} =>
              stats'.batches_persisted = stats.batches_persisted
       /\ Cardinality(in_flight \ in_flight') <= 1
      ]_vars

\* One flush committed, a later one failed: two connections, one batch
\* counted, and a POST /flush has just found the Buffer empty.
C29_Witness ==
    /\ stats.batches_persisted = 1
    /\ db_connects = 2
    /\ last_persist.returned = 0
    /\ http_pc = "respond" /\ http_response = 0 /\ last_persist.caller # "flush_buffer"

\* C30: POST /weather-data/batch answers 400 whenever the body has no
\* 'records' field or 'records' is not a list, and produces nothing to the
\* data topic or to the DLQ topic in that case.
C30_BatchFormat400 ==
    [][\A body \in BatchBodies :
           (batch_request' = Append(batch_request, body) /\ body.records # "list")
               => /\ batch_status' = 400
                  /\ produced' = produced
      ]_vars

\* The 0-based indices of the records of a list that are not schema-valid.
InvalidIndices(items) == {i - 1 : i \in {j \in 1..Len(items) : items[j] # "valid"}}

\* C31: for any list of records the batch endpoint answers with a summary
\* in which total is the number of records, successful + failed = total and
\* failures lists exactly the indices of the records that failed; every
\* schema-valid record is produced once to the data topic and every
\* schema-invalid record once to the dead-letter topic.
C31_BatchSummary ==
    [][\A body \in BatchBodies :
           (/\ batch_request' = Append(batch_request, body)
            /\ body.records = "list"
            /\ batch_status' = 200)
               => /\ \E summary \in batch_summary' :
                      /\ summary.total = Len(body.items)
                      /\ summary.successful + summary.failed = summary.total
                      /\ {summary.failures[i] : i \in DOMAIN summary.failures}
                             = InvalidIndices(body.items)
                      /\ summary.failed = Cardinality(InvalidIndices(body.items))
                  /\ produced'.topic - produced.topic
                         = Len(body.items) - Cardinality(InvalidIndices(body.items))
                  /\ produced'.dlq - produced.dlq
                         = Cardinality(InvalidIndices(body.items))
      ]_vars

\* The steps in which a GET /weather/{station_id} request is answered.
QueryAnswered == queries' = queries + 1

\* C32 as stated: a cache hit is returned without opening a cursor, and on
\* a cache miss that is answered the database is queried exactly once and
\* the result is stored under the key that was looked up.
C32_MissStoresResult ==
    [][QueryAnswered =>
          \A r \in query_response' :
              /\ (r.redis_get /\ query_cache[r.key] # {})
                     => /\ db_cursors' = db_cursors
                        /\ r.body = {json_loads(c) : c \in query_cache[r.key]}
              /\ (r.redis_get /\ query_cache[r.key] = {} /\ r.status = 200)
                     => /\ db_cursors' = db_cursors + 1
                        /\ \A result \in r.body :
                               query_cache'[r.key] = {json_dumps(result)}
      ]_vars

\* C32, amended: a cache hit is returned as cached without opening a cursor
\* and without touching the cache; a request that is not a hit opens at most
\* one cursor, and when it is answered it opened exactly one and the result
\* is stored under the looked-up key if the cache write succeeded, and the
\* cache is left as it was if the write failed; no other key is written.
C32_CacheAside ==
    [][QueryAnswered =>
          \A r \in query_response' :
              /\ (r.redis_get /\ query_cache[r.key] # {})
                     => /\ r.served_from = "cache"
                        /\ db_cursors' = db_cursors
                        /\ r.body = {json_loads(c) : c \in query_cache[r.key]}
                        /\ query_cache' = query_cache
              /\ r.served_from # "cache"
                     => /\ db_cursors' \in {db_cursors, db_cursors + 1}
                        /\ r.status = 200 =>
                              /\ db_cursors' = db_cursors + 1
                              /\ r.body = {select_weather(r.key)}
                              /\ r.setex => query_cache'[r.key] = {json_dumps(select_weather(r.key))}
                              /\ ~r.setex => query_cache' = query_cache
                        /\ \A k \in QueryKeys \ {r.key} : query_cache'[k] = query_cache[k]
      ]_vars

\* C32 happens: a second request was answered from the cache that the first,
\* a miss, had filled, with one cursor opened in all.
C32_Witness ==
    /\ queries = 2
    /\ db_cursors = 1
    /\ \E r \in query_response :
           /\ r.served_from = "cache"
           /\ r.body = {select_weather(r.key)}

\* A size-triggered flush is in progress.
SizeFlushInProgress == \E call \in in_flight : call.caller = "consume"

\* C33: back-pressure.  An upsert that brings the Buffer to BATCH_SIZE
\* entries starts a flush on behalf of the ingestion loop, and from then
\* until that flush has returned the loop pulls no message and nothing is
\* upserted.
C33_BackPressure ==
    [][/\ (/\ stats'.messages_processed = stats.messages_processed + 1
           /\ overwritten' = overwritten
           /\ len(buffer) = BATCH_SIZE - 1)
              => /\ SizeFlushInProgress'
                 /\ consume_pc' # "next_msg"
       /\ SizeFlushInProgress
              => /\ consumed' = consumed
                 /\ stats'.messages_processed = stats.messages_processed
                 /\ buffer' = buffer
                 /\ dlq' = dlq
      ]_vars

\* The size-triggered flush is in progress while the source still has
\* messages to give.
C33_Witness ==
    /\ SizeFlushInProgress
    /\ consume_pc = "size_flush"
    /\ consumed < MaxMsgs
    /\ len(buffer) = 0

\* C34: every message pulled from the source was either upserted into the
\* Buffer or handed to the dead-letter router, each exactly once: the
\* pulled messages are as many as the upserted and the handed together.
C34_NoSilentDiscard == consumed = stats.messages_processed + dlq

\* C35: the Buffer never holds more than BATCH_SIZE entries, also not right
\* after the upsert that triggers the flush, and whenever the ingestion
\* loop waits for the next message it holds fewer than BATCH_SIZE, whether
\* or not the size-triggered persist succeeded.
C35_BufferBounded ==
    /\ [](len(buffer) <= BATCH_SIZE)
    /\ [](consume_pc = "next_msg" => len(buffer) < BATCH_SIZE)
    /\ [][/\ stats'.messages_processed = stats.messages_processed + 1
                 => len(buffer) + 1 <= BATCH_SIZE
          /\ \A call \in in_flight \ in_flight' :
                 call.caller = "consume"
                     => consume_pc' = "next_msg" /\ len(buffer') < BATCH_SIZE
         ]_vars

\* The size-triggered persist failed, and the loop, having upserted again,
\* waits for the next message with the Buffer one short of the threshold.
C35_Witness ==
    /\ last_persist.caller = "consume"
    /\ last_persist.returned = 0
    /\ stats.batches_persisted = 0
    /\ consume_pc = "next_msg"
    /\ len(buffer) = BATCH_SIZE - 1

\* The number of records drained by all flushes so far.
RECURSIVE DrainedOver(_)
DrainedOver(offs) ==
    IF offs = {} THEN 0
    ELSE LET o == CHOOSE x \in offs : TRUE
         IN  drained[o] + DrainedOver(offs \ {o})

TotalDrained == DrainedOver(DOMAIN drained)

\* The entries that are in the Buffer or in a flush in progress.
HeldEntries == values(buffer) \cup UNION {call.data_to_persist : call \in in_flight}

\* C36: counter conservation.  messages_processed - in_memory_duplicates is
\* the number of Buffer entries plus the number of records drained by all
\* flushes so far; in_memory_duplicates never exceeds messages_processed;
\* and messages_processed grows by one exactly with each pulled message
\* that passed validation, which is then the entry upserted.
C36_CounterConservation ==
    /\ [](stats.messages_processed - stats.in_memory_duplicates
              = len(buffer) + TotalDrained)
    /\ [](stats.in_memory_duplicates <= stats.messages_processed)
    /\ [][consumed' = consumed + 1 =>
             \/ /\ stats'.messages_processed = stats.messages_processed + 1
                /\ \E m \in Messages :
                       Accepted(m) /\ stored_dict(m, consumed) \in HeldEntries'
             \/ /\ stats'.messages_processed = stats.messages_processed
                /\ \A e \in HeldEntries' : e.offset # consumed
         ]_vars
    /\ [][consumed' = consumed
             => stats'.messages_processed = stats.messages_processed]_vars

\* A key was upserted twice and flushed by hand, then another message was
\* upserted: three processed, one duplicate, one drained, one in the Buffer.
C36_Witness ==
    /\ stats.messages_processed = 3
    /\ stats.in_memory_duplicates = 1
    /\ TotalDrained = 1
    /\ len(buffer) = 1
    /\ in_flight = {}

\* Every persist attempt so far committed, and none is in progress.
EveryPersistSucceeded == db_connects = stats.batches_persisted /\ in_flight = {}

\* C37: if every persist attempt succeeded, then whenever the Buffer is
\* empty the table has, for each natural key, exactly one row, holding the
\* temperature, humidity and wind_speed of the most recently consumed valid
\* message of that key.
C37_DurableLatest ==
    (EveryPersistSucceeded /\ len(buffer) = 0)
        => \A nk \in DOMAIN newest :
               {r \in db : <<r.station_id, r.timestamp>> = nk} = {newest[nk]}

\* The steps that enter a with-block.
LockRequested == lock_pc \in {"line_333", "line_345", "line_210", "line_252"}

\* C38: no deadlock on buffer_lock.  Every request for the lock finds it
\* free, so no coroutine waits for it; the lock is free whenever the loop
\* is idle and whenever persist_batch is called, also after a with-block
\* was left by an exception; and every run that started comes to its end.
C38_NoLockDeadlock ==
    /\ [](lock_pc # "blocked")
    /\ [](LockRequested => buffer_lock = "free")
    /\ [](lock_pc \in {"idle", "end", "line_203", "line_355"} => buffer_lock = "free")
    /\ (lock_task # "none") ~> (lock_task = "none")

\* The size-triggered flush holds the lock inside persist_batch, after
\* consume() released it at the end of its own block.
C38_Witness ==
    /\ lock_task = "consume"
    /\ lock_pc = "line_211"
    /\ buffer_lock = "consume"

\* C39: in the generator at most one data-generation task is active at any
\* time, whatever the order of POST /start and POST /stop, and a task that
\* was running when POST /stop was handled does not go on generating.
C39_OneGenerationTask ==
    /\ Cardinality(ActiveTasks) <= 1
    /\ revived = {}

====
